---- MODULE Spec2Model ----
(***************************************************************************)
(* A model of loki_api_client.loki_connect.LokiConnect: the constructor,   *)
(* ready() and query(), together with the part of the HTTP session they    *)
(* drive (requests' HTTPAdapter with a urllib3 Retry mounted on the base   *)
(* URL).  One client is constructed; a caller then makes a bounded number  *)
(* of sequential calls, optionally handing every call the same dict.       *)
(***************************************************************************)
EXTENDS Integers, Sequences, FiniteSets, TLC

(***************************************************************************)
(* Bounds of the model.                                                    *)
(***************************************************************************)
MaxCalls == 2

(***************************************************************************)
(* Python values, tagged by type.                                          *)
(***************************************************************************)
None == <<"none">>
PyStr(s) == <<"str", s>>
PyInt(n) == <<"int", n>>
PyBool(b) == <<"bool", b>>
Json(t) == <<"json", t>>

\* bool(v): None, "" and 0 are falsy.
Truthy(v) ==
    CASE v[1] = "none" -> FALSE
      [] v[1] = "str" -> v[2] # ""
      [] v[1] = "int" -> v[2] # 0
      [] v[1] = "bool" -> v[2]
      [] OTHER -> TRUE

\* isinstance(v, str)
IsStr(v) == v[1] = "str"

(***************************************************************************)
(* dicts: functions from a finite set of keys to values.                   *)
(***************************************************************************)
EmptyDict == [k \in {} |-> None]

\* d[k] = v
Put(d, k, v) == [x \in (DOMAIN d) \cup {k} |-> IF x = k THEN v ELSE d[x]]

(***************************************************************************)
(* Module constants.                                                       *)
(***************************************************************************)
MAX_REQUEST_RETRIES == 3
RETRY_BACKOFF_FACTOR == 1
RETRY_ON_STATUS == {408, 429, 500, 502, 503, 504}
DEFAULT_URL == PyStr("http://127.0.0.1:3100")
DEFAULT_LIMIT == 10
DEFAULT_DIRECTION == PyStr("backward")

(***************************************************************************)
(* urllib3.util.retry.Retry, as the constructor configures it.  total is   *)
(* the number of RETRIES still allowed (not of attempts); a status is      *)
(* retried when it is in status_forcelist; raise_on_status (default True)  *)
(* makes exhaustion on a status raise instead of returning the response.   *)
(***************************************************************************)
Retry(total, backoff_factor, status_forcelist) ==
    [total |-> total, backoff_factor |-> backoff_factor,
     status_forcelist |-> status_forcelist, raise_on_status |-> TRUE]

\* Retry.increment(): a new Retry with one retry fewer.
Retry_increment(r) == [r EXCEPT !.total = r.total - 1]

\* Retry.is_exhausted()
Retry_is_exhausted(r) == r.total < 0

\* Retry.is_retry() for a GET whose response carries no Retry-After header.
Retry_is_retry(r, status) == status \in r.status_forcelist

\* A caller-supplied policy: Retry(0), no retries and no forced statuses.
NoRetries == Retry(0, 0, {})

RetryArgs == {None, <<"retry", NoRetries>>}

(***************************************************************************)
(* The constructor.                                                        *)
(***************************************************************************)
NoClient ==
    [url |-> None, headers |-> None, ssl_verification |-> FALSE,
     ignore_http_errors |-> FALSE, max_retries |-> NoRetries]

\* Variants of the constructor, used to show which claims depend on it.
LokiConnect_init_unchecked(url, headers, disable_ssl, retry, ignore_http_errors) ==
    [raised |-> "",
     self |-> [url |-> url, headers |-> headers,
               ssl_verification |-> ~disable_ssl,
               ignore_http_errors |-> ignore_http_errors,
               max_retries |-> IF retry = None
                                 THEN Retry(MAX_REQUEST_RETRIES,
                                            RETRY_BACKOFF_FACTOR, RETRY_ON_STATUS)
                                 ELSE retry[2]]]

LokiConnect_init_no_forcelist(url, headers, disable_ssl, retry, ignore_http_errors) ==
    IF url = None
      THEN [raised |-> "TypeError", self |-> NoClient]
      ELSE [raised |-> "",
            self |-> [url |-> url, headers |-> headers,
                      ssl_verification |-> ~disable_ssl,
                      ignore_http_errors |-> ignore_http_errors,
                      max_retries |-> IF retry = None
                                        THEN Retry(MAX_REQUEST_RETRIES,
                                                   RETRY_BACKOFF_FACTOR, {})
                                        ELSE retry[2]]]

LokiConnect_init(url, headers, disable_ssl, retry, ignore_http_errors) ==
    IF url = None
      THEN [raised |-> "TypeError", self |-> NoClient]
      ELSE [raised |-> "",
            self |-> [url |-> url, headers |-> headers,
                      ssl_verification |-> ~disable_ssl,
                      ignore_http_errors |-> ignore_http_errors,
                      max_retries |-> IF retry = None
                                        THEN Retry(MAX_REQUEST_RETRIES,
                                                   RETRY_BACKOFF_FACTOR,
                                                   RETRY_ON_STATUS)
                                        ELSE retry[2]]]

(***************************************************************************)
(* The inputs the model draws from.                                        *)
(***************************************************************************)
Urls == {None, DEFAULT_URL}
HeaderArgs == {None, <<"dict", [Authorization |-> "bearer t"]>>}
CtorArgs ==
    { a \in [url : Urls, headers : HeaderArgs, disable_ssl : BOOLEAN,
             retry : RetryArgs, ignore_http_errors : BOOLEAN] :
        a.disable_ssl = (a.headers # None) }

\* The dict the caller holds and may pass as params to every call.
CallerDicts ==
    { EmptyDict,
      [k \in {"org", "limit"} |-> IF k = "org" THEN PyStr("a") ELSE PyInt(5)],
      [k \in {"query", "direction"} |->
          IF k = "query" THEN PyStr("old") ELSE PyStr("sideways")] }

Queries == {None, PyStr(""), PyInt(5), PyStr("up")}
Limits == {<<"omitted">>, PyInt(0), PyInt(25)}
Times == {None, PyStr("1700")}
Directions == {PyStr("backward"), PyStr("forward"), PyStr("sideways")}

Statuses == {200, 304, 404, 500, 503}
Bodies == {"{}", "[]", "oops"}

\* What one HTTP attempt meets: a response, or a connection failure.
ConnError == [kind |-> "conn_error", status |-> 0, body |-> ""]
Outcomes ==
    {ConnError} \cup
    {[kind |-> "response", status |-> s, body |-> b] : s \in Statuses, b \in Bodies}

(***************************************************************************)
(* State.                                                                  *)
(***************************************************************************)
VARIABLES
    self,        \* the client's fields (NoClient when construction raised)
    ctor,        \* the arguments the constructor was called with
    pc,          \* "no_client" | "idle" | "sending" | "done"
    callerDict,  \* the dict object the caller holds and may pass as params
    call,        \* the call in progress, or the last one
    request,     \* the GET handed to the session by the call
    nrequests,   \* number of session.get() calls made by the call
    attempts,    \* what each HTTP attempt of the call met, in order
    retries,     \* the Retry object of the request in flight
    response,    \* the response the session returned to the call
    result,      \* how the call ended
    ncalls       \* calls made so far

vars == <<self, ctor, pc, callerDict, call, request, nrequests, attempts,
          retries, response, result, ncalls>>

NoCall ==
    [op |-> "none", query |-> None, limit |-> None, limit_given |-> FALSE,
     time |-> None, direction |-> None, passed |-> FALSE, before |-> EmptyDict]
NoRequest ==
    [path |-> "", params |-> EmptyDict, verify |-> FALSE, headers |-> None]
NoResponse == [kind |-> "none", status |-> 0, body |-> ""]
NoResult == [kind |-> "none", exc |-> "", value |-> None]

Return(v) == [kind |-> "return", exc |-> "", value |-> v]
Raise(e) == [kind |-> "raise", exc |-> e, value |-> None]

\* The state after LokiConnect(...) was called with arguments drawn from A.
InitOver(A) ==
    \E a \in A, d \in CallerDicts :
        LET c == LokiConnect_init(a.url, a.headers, a.disable_ssl, a.retry,
                                  a.ignore_http_errors)
        IN  /\ ctor = a
            /\ self = c.self
            /\ pc = IF c.raised = "" THEN "idle" ELSE "no_client"
            /\ callerDict = d
            /\ call = NoCall
            /\ request = NoRequest
            /\ nrequests = 0
            /\ attempts = <<>>
            /\ retries = c.self.max_retries
            /\ response = NoResponse
            /\ result = NoResult
            /\ ncalls = 0

Init == InitOver(CtorArgs)

(***************************************************************************)
(* params = params or {}: a non-empty dict the caller passed is used as    *)
(* it is (the same object); None and an empty dict give a fresh dict.      *)
(***************************************************************************)
params_or_empty(passed, d) ==
    IF passed /\ DOMAIN d # {}
      THEN [aliased |-> TRUE, d |-> d]
      ELSE [aliased |-> FALSE, d |-> EmptyDict]

(***************************************************************************)
(* query(): validation and the parameter set, up to the GET.  params is    *)
(* the dict as the statements executed so far have left it.                *)
(***************************************************************************)
direction_supported_values == {PyStr("backward"), PyStr("forward")}

\* Variants of query_params, used to show which claims depend on it.
\* The direction is not validated.
query_params_no_direction_check(query, limit, time, direction, d) ==
    IF ~Truthy(query)
      THEN [raised |-> "ValueError", params |-> d]
    ELSE IF ~IsStr(query)
      THEN [raised |-> "TypeError", params |-> d]
    ELSE
      LET p1 == Put(d, "query", query)
          p2 == IF Truthy(time) THEN Put(p1, "time", time) ELSE p1
          p3 == IF Truthy(limit) THEN Put(p2, "limit", limit) ELSE p2
      IN  [raised |-> "", params |-> Put(p3, "direction", direction)]

\* The extra parameters override the named arguments.
PutDefault(d, k, v) == IF k \in DOMAIN d THEN d ELSE Put(d, k, v)

query_params_extras_win(query, limit, time, direction, d) ==
    IF ~Truthy(query)
      THEN [raised |-> "ValueError", params |-> d]
    ELSE IF ~IsStr(query)
      THEN [raised |-> "TypeError", params |-> d]
    ELSE
      LET p1 == PutDefault(d, "query", query)
          p2 == IF Truthy(time) THEN PutDefault(p1, "time", time) ELSE p1
          p3 == IF Truthy(limit) THEN PutDefault(p2, "limit", limit) ELSE p2
      IN  IF direction \notin direction_supported_values
            THEN [raised |-> "ValueError", params |-> p3]
            ELSE [raised |-> "", params |-> PutDefault(p3, "direction", direction)]

\* limit is tested against None instead of for truth.
query_params_limit_not_none(query, limit, time, direction, d) ==
    IF ~Truthy(query)
      THEN [raised |-> "ValueError", params |-> d]
    ELSE IF ~IsStr(query)
      THEN [raised |-> "TypeError", params |-> d]
    ELSE
      LET p1 == Put(d, "query", query)
          p2 == IF Truthy(time) THEN Put(p1, "time", time) ELSE p1
          p3 == IF limit # None THEN Put(p2, "limit", limit) ELSE p2
      IN  IF direction \notin direction_supported_values
            THEN [raised |-> "ValueError", params |-> p3]
            ELSE [raised |-> "", params |-> Put(p3, "direction", direction)]

query_params(query, limit, time, direction, d) ==
    IF ~Truthy(query)
      THEN [raised |-> "ValueError", params |-> d]
    ELSE IF ~IsStr(query)
      THEN [raised |-> "TypeError", params |-> d]
    ELSE
      LET p1 == Put(d, "query", query)
          p2 == IF Truthy(time) THEN Put(p1, "time", time) ELSE p1
          p3 == IF Truthy(limit) THEN Put(p2, "limit", limit) ELSE p2
      IN  IF direction \notin direction_supported_values
            THEN [raised |-> "ValueError", params |-> p3]
            ELSE [raised |-> "", params |-> Put(p3, "direction", direction)]

(***************************************************************************)
(* The transport: one attempt of HTTPAdapter.send / urlopen under Retry r. *)
(* next is "retry", "response" (the response is returned to the caller),   *)
(* or the exception requests raises.                                       *)
(***************************************************************************)
urlopen(r, o) ==
    IF o.kind = "conn_error"
      THEN LET n == Retry_increment(r)
           IN  IF Retry_is_exhausted(n)
                 THEN [next |-> "ConnectionError", retry |-> n]
                 ELSE [next |-> "retry", retry |-> n]
    ELSE IF Retry_is_retry(r, o.status)
      THEN LET n == Retry_increment(r)
           IN  IF Retry_is_exhausted(n)
                 THEN [next |-> IF r.raise_on_status THEN "RetryError" ELSE "response",
                       retry |-> n]
                 ELSE [next |-> "retry", retry |-> n]
    ELSE [next |-> "response", retry |-> r]

\* Response.raise_for_status() raises for 400 <= status < 600.
raise_for_status(status) == 400 <= status /\ status < 600

\* Response.ok
ok(status) == ~raise_for_status(status)

\* Response.json()
json(body) ==
    CASE body = "{}" -> Return(Json("object"))
      [] body = "[]" -> Return(Json("array"))
      [] OTHER -> Raise("JSONDecodeError")

\* ready(), after the GET returned
ready_result(resp) == Return(PyBool(ok(resp.status)))

\* A variant of query_result that tests the flag the wrong way round.
query_result_flag_inverted(ignore_http_errors, resp) ==
    IF ignore_http_errors /\ raise_for_status(resp.status)
      THEN Raise("HTTPError")
      ELSE json(resp.body)

\* query(), after the GET returned
query_result(ignore_http_errors, resp) ==
    IF ~ignore_http_errors /\ raise_for_status(resp.status)
      THEN Raise("HTTPError")
      ELSE json(resp.body)

(***************************************************************************)
(* Actions.                                                                *)
(***************************************************************************)
CanCall == pc \in {"idle", "done"} /\ ncalls < MaxCalls

\* ready(params): builds the request and hands it to the session.
ready(passed) ==
    /\ CanCall
    /\ LET p == params_or_empty(passed, callerDict)
       IN  /\ call' = [NoCall EXCEPT !.op = "ready", !.passed = passed,
                                     !.before = callerDict]
           /\ request' = [path |-> "/ready", params |-> p.d,
                          verify |-> self.ssl_verification,
                          headers |-> self.headers]
    /\ nrequests' = 1
    /\ pc' = "sending"
    /\ attempts' = <<>>
    /\ retries' = self.max_retries
    /\ response' = NoResponse
    /\ result' = NoResult
    /\ ncalls' = ncalls + 1
    /\ UNCHANGED <<self, ctor, callerDict>>

\* query(query, limit, time, direction, params), up to the GET.
query(q, limit_arg, time, direction, passed) ==
    /\ CanCall
    /\ LET limit == IF limit_arg = <<"omitted">> THEN PyInt(DEFAULT_LIMIT)
                                                 ELSE limit_arg
           p == params_or_empty(passed, callerDict)
           b == query_params(q, limit, time, direction, p.d)
       IN  /\ call' = [op |-> "query", query |-> q, limit |-> limit,
                       limit_given |-> (limit_arg # <<"omitted">>),
                       time |-> time, direction |-> direction,
                       passed |-> passed, before |-> callerDict]
           /\ callerDict' = IF p.aliased THEN b.params ELSE callerDict
           /\ IF b.raised # ""
                THEN /\ pc' = "done"
                     /\ result' = Raise(b.raised)
                     /\ request' = NoRequest
                     /\ nrequests' = 0
                ELSE /\ pc' = "sending"
                     /\ result' = NoResult
                     /\ request' = [path |-> "/loki/api/v1/query",
                                    params |-> b.params,
                                    verify |-> self.ssl_verification,
                                    headers |-> self.headers]
                     /\ nrequests' = 1
    /\ attempts' = <<>>
    /\ retries' = self.max_retries
    /\ response' = NoResponse
    /\ ncalls' = ncalls + 1
    /\ UNCHANGED <<self, ctor>>

\* One HTTP attempt of the request in flight and, when it is the last one,
\* the rest of the call.
attempt(o) ==
    /\ pc = "sending"
    /\ LET t == urlopen(retries, o)
       IN  /\ attempts' = Append(attempts, [kind |-> o.kind, status |-> o.status])
           /\ retries' = t.retry
           /\ IF t.next = "retry"
                THEN /\ pc' = "sending"
                     /\ UNCHANGED <<response, result>>
              ELSE IF t.next = "response"
                THEN /\ pc' = "done"
                     /\ response' = o
                     /\ result' = IF call.op = "ready"
                                    THEN ready_result(o)
                                    ELSE query_result(self.ignore_http_errors, o)
              ELSE   /\ pc' = "done"
                     /\ response' = NoResponse
                     /\ result' = Raise(t.next)
    /\ UNCHANGED <<self, ctor, callerDict, call, request, nrequests, ncalls>>

\* The steps of a caller whose arguments are drawn from Q, L, T and D, against
\* a server whose attempts end as one of O.
NextOver(Q, L, T, D, O) ==
    \/ \E passed \in BOOLEAN : ready(passed)
    \/ \E q \in Q, l \in L, t \in T, d \in D, passed \in BOOLEAN :
          query(q, l, t, d, passed)
    \/ \E o \in O : attempt(o)

\* Every outcome of every attempt, for a caller with few distinct arguments.
Next ==
    NextOver({PyStr("up"), PyStr("")}, {<<"omitted">>}, {None},
             {DEFAULT_DIRECTION}, Outcomes)

Spec == Init /\ [][Next]_vars

\* Every argument of every call, against a server with few distinct answers.
FewOutcomes ==
    { o \in Outcomes :
        \/ o.kind = "response" /\ o.status = 200 /\ o.body = "{}"
        \/ o.kind = "response" /\ o.status = 503 /\ o.body = "oops" }

NextParams == NextOver(Queries, Limits, Times, Directions, FewOutcomes)

\* The client there is built with the default URL, headers and retry policy.
InitParams ==
    InitOver({ a \in CtorArgs :
                 a.url = DEFAULT_URL /\ a.headers = None /\ a.retry = None })

SpecParams == InitParams /\ [][NextParams]_vars

(***************************************************************************)
(* Properties.                                                             *)
(***************************************************************************)
Done == pc = "done"
DefaultPolicy == ctor.retry = None
Last(sq) == sq[Len(sq)]
AllResponses == \A i \in 1..Len(attempts) : attempts[i].kind = "response"
AllStatus(s) ==
    \A i \in 1..Len(attempts) :
        attempts[i].kind = "response" /\ attempts[i].status = s
\* The first k attempts were answered s.
FirstAnswered(k, s) ==
    /\ Len(attempts) >= k
    /\ \A i \in 1..k : attempts[i].kind = "response" /\ attempts[i].status = s
ValidArgs(c) ==
    /\ IsStr(c.query) /\ c.query[2] # ""
    /\ c.direction \in {PyStr("forward"), PyStr("backward")}

\* C1: with the default retry policy, a ready() call all of whose attempts
\* received an HTTP response returns a boolean, true iff the last status is
\* below 400, and never raises (also when every attempt is answered 503).
C1_ReadyReturnsBool ==
    (Done /\ call.op = "ready" /\ DefaultPolicy /\ AllResponses)
        => /\ result.kind = "return"
           /\ result.value = PyBool(Last(attempts).status < 400)

\* C2 as stated: a query() call that obtained a final response with status s
\* fails with HTTPError when ignore_http_errors is false and s is not 2xx, and
\* raises nothing because of the status when ignore_http_errors is true.
C2_NonSuccessRaises ==
    (Done /\ call.op = "query" /\ response.kind = "response")
        => /\ (~self.ignore_http_errors
                  /\ ~(200 <= response.status /\ response.status < 300))
                 => result = Raise("HTTPError")
           /\ self.ignore_http_errors => result.exc # "HTTPError"

\* C2 amended: a query() call to which the session returned a response with
\* status s fails with HTTPError iff ignore_http_errors is false and
\* 400 <= s < 600; otherwise it ends as the decoding of the body ends.
C2_ErrorStatusRaises ==
    (Done /\ call.op = "query" /\ response.kind = "response")
        => IF ~self.ignore_http_errors
                /\ 400 <= response.status /\ response.status < 600
             THEN result = Raise("HTTPError")
             ELSE result.exc # "HTTPError" /\ result = json(response.body)

C2_Witness ==
    /\ Done /\ call.op = "query" /\ ~self.ignore_http_errors
    /\ response.kind = "response" /\ response.status = 404
    /\ result = Raise("HTTPError")

\* C3: with the default retry policy, a query() call whose every attempt was
\* answered 500 ends, once the retries are exhausted, with HTTPError when
\* ignore_http_errors is false and by returning the decoded body otherwise.
C3_Exhausted500 ==
    (Done /\ call.op = "query" /\ DefaultPolicy /\ nrequests = 1 /\ AllStatus(500))
        => IF self.ignore_http_errors
             THEN result.kind = "return" \/ result.exc = "JSONDecodeError"
             ELSE result = Raise("HTTPError")

\* C4: with the default retry policy, while a valid query() call has been
\* answered 503 on each of its first k attempts (k <= 2) it goes on to another
\* attempt, and when that attempt is answered 200 the call ends after exactly
\* k+1 attempts with the decoding of the body of that response.
C4_RetryThenSuccess ==
    (call.op = "query" /\ nrequests = 1 /\ DefaultPolicy)
        => \A k \in 0..2 :
             FirstAnswered(k, 503)
               => /\ Len(attempts) = k => pc = "sending"
                  /\ (Len(attempts) > k /\ attempts[k + 1].kind = "response"
                        /\ attempts[k + 1].status = 200)
                       => /\ Done
                          /\ Len(attempts) = k + 1
                          /\ response.status = 200
                          /\ result = json(response.body)

C4_Witness ==
    /\ Done /\ call.op = "query" /\ DefaultPolicy
    /\ Len(attempts) = 3 /\ FirstAnswered(2, 503)
    /\ attempts[3].status = 200
    /\ result = Return(Json("object"))

\* C5: a query() call whose arguments fail validation has ended with
\* ValueError or TypeError and no GET was issued and no attempt made for it.
C5_InvalidNoRequest ==
    (call.op = "query" /\ ~ValidArgs(call))
        => /\ Done
           /\ result.kind = "raise"
           /\ result.exc \in {"ValueError", "TypeError"}
           /\ nrequests = 0
           /\ request = NoRequest
           /\ attempts = <<>>

C5_Witness ==
    /\ Done /\ call.op = "query"
    /\ call.query = PyStr("up") /\ call.direction = PyStr("sideways")
    /\ result = Raise("ValueError")

\* C6: a query() call with valid arguments issues exactly one request, to the
\* query endpoint, whose parameters carry the call's query and direction,
\* whatever the extra-parameter dict holds under those keys.
C6_OneRequestWithArgs ==
    (call.op = "query" /\ ValidArgs(call))
        => /\ nrequests = 1
           /\ request.path = "/loki/api/v1/query"
           /\ {"query", "direction"} \subseteq DOMAIN request.params
           /\ request.params["query"] = call.query
           /\ request.params["direction"] = call.direction

C6_Witness ==
    /\ Done /\ call.op = "query" /\ ValidArgs(call)
    /\ call.passed /\ "query" \in DOMAIN call.before
    /\ call.before["query"] # call.query
    /\ call.before["direction"] # call.direction
    /\ Len(attempts) > 1

\* C7 as stated: for a valid query() call, omitting limit or passing 0 leaves
\* the key limit out of the request parameters and a non-zero limit n is sent
\* as limit=n, whatever the extra-parameter dict.
C7_LimitOmittedOrZeroExcluded ==
    (call.op = "query" /\ ValidArgs(call))
        => IF ~call.limit_given \/ call.limit = PyInt(0)
             THEN "limit" \notin DOMAIN request.params
             ELSE /\ "limit" \in DOMAIN request.params
                  /\ request.params["limit"] = call.limit

\* C7 amended: for a valid query() call, passing limit=0 leaves the request's
\* limit as the extra-parameter dict has it (absent when the dict has none),
\* omitting limit sends the default limit=10, and a non-zero limit n is sent
\* as limit=n, whatever the extra-parameter dict.
C7_LimitZeroNotSet ==
    (call.op = "query" /\ ValidArgs(call))
        => IF call.limit_given /\ call.limit = PyInt(0)
             THEN IF call.passed /\ "limit" \in DOMAIN call.before
                    THEN /\ "limit" \in DOMAIN request.params
                         /\ request.params["limit"] = call.before["limit"]
                    ELSE "limit" \notin DOMAIN request.params
             ELSE /\ "limit" \in DOMAIN request.params
                  /\ request.params["limit"] =
                        IF call.limit_given THEN call.limit
                                            ELSE PyInt(DEFAULT_LIMIT)

C7_Witness ==
    /\ call.op = "query" /\ ValidArgs(call)
    /\ call.limit_given /\ call.limit = PyInt(0)
    /\ call.passed /\ call.before # EmptyDict
    /\ "limit" \notin DOMAIN request.params

\* C8: with the default retry policy no call makes more than 3 HTTP attempts.
C8_AtMostThreeAttempts ==
    DefaultPolicy => Len(attempts) <= 3

\* C9: when a call has returned or failed, the dict the caller passed to it
\* is as it was when the call began.
C9_CallerDictUnchanged ==
    (Done /\ call.passed) => callerDict = call.before

\* C10: construction with a null URL yields no client; a constructed client's
\* URL is non-null and its URL, headers, TLS flag, error-suppression flag and
\* session retry policy are those set at construction, after any calls.
C10_ConfigImmutable ==
    IF ctor.url = None
      THEN pc = "no_client" /\ self = NoClient
      ELSE /\ pc # "no_client"
           /\ self.url # None
           /\ self.url = ctor.url
           /\ self.headers = ctor.headers
           /\ self.ssl_verification = ~ctor.disable_ssl
           /\ self.ignore_http_errors = ctor.ignore_http_errors
           /\ self.max_retries =
                 IF ctor.retry = None
                   THEN Retry(MAX_REQUEST_RETRIES, RETRY_BACKOFF_FACTOR,
                              RETRY_ON_STATUS)
                   ELSE ctor.retry[2]

C10_Witness ==
    /\ Done /\ ncalls > 1 /\ result.kind = "raise"
    /\ self.url = DEFAULT_URL /\ self.headers # None

====
